---------------------------- MODULE Spec2Model ----------------------------
(***************************************************************************)
(* Pipeline execution engine of the shell (src/src/pipeline.rs, io.rs,     *)
(* builtins.rs).  The interpreter's main thread, the child processes it    *)
(* spawns, the OS pipes between them and the copy threads it starts are    *)
(* modelled as one state machine.                                          *)
(*                                                                         *)
(* A line is the sequence of segments parse_pipeline returns; a segment is *)
(* a sequence of words.  Output is a sequence of atoms (strings).          *)
(***************************************************************************)
EXTENDS Integers, Sequences, FiniteSets, TLC

\* ----------------------------------------------------------------- bounds
MaxStages == 3
MaxLines == 1
PipeCap == 1

\* A producer writes one atom more than an OS pipe holds.
GenLen == PipeCap + 1

\* ------------------------------------------------------------ environment
BUILTINS == {"cd", "echo", "exit", "history", "pwd", "type"}

\* Executables Command::spawn finds on PATH: gen writes GenLen atoms to its
\* stdout, cat copies stdin to stdout until EOF, err writes one atom to stderr.
PathExecutables == {"gen", "cat", "err"}

\* The tokens setup_redirections matches.
StdoutOps == {">", "1>", ">>", "1>>"}
StderrOps == {"2>", "2>>"}
BothOps == {"&>"}
AppendOps == {">>", "1>>", "2>>"}
FileOps == StdoutOps \cup StderrOps \cup BothOps
AllOps == FileOps \cup {"2>&1"}

\* Paths OpenOptions::open can open: f and x are regular files, as is a file
\* that has the name of an operator; full is a device whose writes fail
\* (/dev/full).  Any other path (nodir/f) cannot be opened.
FileNames == {"f", "x", "full"} \cup AllOps
Dirs == {"/", "d"}

NoFile == [exists |-> FALSE, data |-> <<>>]
NoHandle == "none"

SegMenu ==
  { <<"gen">>, <<"cat">>, <<"echo", "a">>, <<"nosuch">>, <<"echo", "'">>,
    <<"#">>, <<"exit">>, <<"cd", "nodir">>, <<"cd", "d">>,
    <<"cat", ">", "f">>, <<"gen", ">", "f">>, <<"echo", "a", ">", "f">>,
    <<"echo", "a", ">">>, <<"echo", "a", ">", "full">>,
    <<"cat", ">", "nodir/f">>, <<"err", "2>", "f">>,
    <<"nosuch", "2>", "f">>, <<"pwd">>, <<"exit", ">", "f">> }

Lines == UNION { [1..m -> SegMenu] : m \in 0..MaxStages }

Procs == 1..(MaxLines * MaxStages)

\* ---------------------------------------------------------------- helpers
Min(a, b) == IF a < b THEN a ELSE b

Take(s, m) == SubSeq(s, 1, Min(m, Len(s)))
Drop(s, m) == SubSeq(s, Min(m, Len(s)) + 1, Len(s))

IsPrefix(s, t) == Len(s) <= Len(t) /\ SubSeq(t, 1, Len(s)) = s

GenData == [n \in 1..GenLen |-> ToString(n)]

\* ------------------------------------------------------------- tokenizer
\* shell_words::split at word level: an unterminated quote (the word ') is an
\* error, a word # starts a comment that runs to the end of the segment.
FirstIdx(seg, w) ==
  IF \E p \in 1..Len(seg) : seg[p] = w
  THEN CHOOSE p \in 1..Len(seg) : seg[p] = w /\ \A q \in 1..(p - 1) : seg[q] # w
  ELSE 0

\* (mutant) the quoting of a word is kept.
unquote_keep(word) == word

\* The text of a word once its quoting is removed: the double-quoted,
\* single-quoted and backslash-escaped forms of > and the double-quoted form
\* of 2>&1 are the written words the model knows.
unquote(word) ==
  CASE word \in {"\">\"", "'>'", "\\>"} -> ">"
    [] word = "\"2>&1\"" -> "2>&1"
    [] OTHER -> word

Split(seg) ==
  IF FirstIdx(seg, "'") # 0
  THEN [ok |-> FALSE, tokens |-> <<>>]
  ELSE LET words == IF FirstIdx(seg, "#") # 0
                    THEN SubSeq(seg, 1, FirstIdx(seg, "#") - 1)
                    ELSE seg
       IN [ok |-> TRUE, tokens |-> [j \in 1..Len(words) |-> unquote(words[j])]]

\* ---------------------------------------------------- redirection resolver
\* (mutant) stderr keeps an earlier target when stdout is not redirected.
dup_stderr_keep(out, err) == IF out # NoHandle THEN out ELSE err

\* "2>&1": stderr_file is a clone of stdout_file, or None when that is None.
dup_stderr(out, err) == out

\* (mutant) the first target of a stream is kept.
assign_first(old, new) == IF old = NoHandle THEN new ELSE old

\* stdout_file = Some(open(..)): the new handle replaces the old one.
assign(old, new) == new

\* (mutant) the filename is not consumed with its operator.
op_width_one(token) == 1

\* The tokens an operator takes: i += 2, or i += 1 for 2>&1.
op_width(token) == IF token = "2>&1" THEN 1 ELSE 2

MissingMsg(token) ==
  CASE token \in {">", "1>"} -> "Missing filename for stdout"
    [] token \in {">>", "1>>"} -> "Missing filename for stdout append"
    [] token = "2>" -> "Missing filename for stderr"
    [] token = "2>>" -> "Missing filename for stderr append"
    [] OTHER -> "Missing filename for &>"

CanOpen(path) == path \in FileNames

\* (mutant) the clone is the descriptor it was made from.
try_clone_same(fd, fresh) == fd

\* File::try_clone: a new descriptor for the same file.
try_clone(fd, fresh) == fresh

\* (mutant) only the file of the latest operator is opened.
scan_open_latest(opens, path, append) == << <<path, append>> >>

\* open(tokens[i + 1], append) is called when the operator is scanned.
scan_open(opens, path, append) == Append(opens, <<path, append>>)

RECURSIVE Scan(_, _, _)
Scan(tokens, idx, acc) ==
  IF idx > Len(tokens) THEN acc
  ELSE LET token == tokens[idx] IN
    IF token \in FileOps
    THEN IF idx + 1 > Len(tokens)
         THEN [acc EXCEPT !.ok = FALSE, !.msg = <<MissingMsg(token), "\n">>]
         ELSE LET path == tokens[idx + 1] IN
           IF ~CanOpen(path)
           THEN [acc EXCEPT !.ok = FALSE,
                            !.msg = <<"Failed to open ", path, "\n">>]
           ELSE LET fd == Len(acc.fds) + 1 IN
             Scan(tokens, idx + op_width(token),
                  [acc EXCEPT
                     !.opens = scan_open(@, path, token \in AppendOps),
                     !.out = IF token \in StdoutOps \cup BothOps
                             THEN assign(@, path) ELSE @,
                     !.err = IF token \in StderrOps \cup BothOps
                             THEN assign(@, path) ELSE @,
                     !.fds = IF token \in BothOps THEN @ \o <<path, path>>
                             ELSE Append(@, path),
                     !.fdo = IF token \in StdoutOps \cup BothOps
                             THEN fd ELSE @,
                     !.fde = IF token \in BothOps
                             THEN try_clone(fd, fd + 1)
                             ELSE IF token \in StderrOps
                             THEN fd ELSE @])
    ELSE IF token = "2>&1"
    THEN Scan(tokens, idx + op_width(token),
              [acc EXCEPT
                 !.err = dup_stderr(acc.out, acc.err),
                 !.fds = IF acc.fdo # 0 THEN Append(@, acc.fds[acc.fdo])
                         ELSE @,
                 !.fde = IF acc.fdo # 0
                         THEN try_clone(acc.fdo, Len(acc.fds) + 1)
                         ELSE 0])
    ELSE Scan(tokens, idx + 1, [acc EXCEPT !.tokens = Append(@, token)])

\* Result: ok, the cleaned tokens (the caller's list is replaced only on
\* success), the files stdout and stderr write to (NoHandle: inherited), the
\* error message, the files opened during the scan, in order, the file of
\* each descriptor created (by open or try_clone), and the descriptors that
\* stdout_file and stderr_file hold (0: None).
setup_redirections(tokens) ==
  LET r == Scan(tokens, 1, [ok |-> TRUE, tokens |-> <<>>, out |-> NoHandle,
                            err |-> NoHandle, msg |-> <<>>, opens |-> <<>>,
                            fds |-> <<>>, fdo |-> 0, fde |-> 0])
  IN IF r.ok THEN r ELSE [r EXCEPT !.tokens = tokens, !.out = NoHandle,
                                   !.err = NoHandle, !.fdo = 0, !.fde = 0]

\* ShellIO::new(): everything inherited, nothing opened.
ShellIO_new(tokens) ==
  [ok |-> TRUE, tokens |-> tokens, out |-> NoHandle, err |-> NoHandle,
   msg |-> <<>>, opens |-> <<>>, fds |-> <<>>, fdo |-> 0, fde |-> 0]

\* (mutant) the file is truncated whatever the mode.
OpenFile_truncate(fs, path, append) ==
  [fs EXCEPT ![path] = [exists |-> TRUE, data |-> <<>>]]

\* OpenOptions::open(path): create, truncate unless append.
OpenFile(fs, path, append) ==
  IF path = "full" THEN [fs EXCEPT ![path] = [exists |-> TRUE, data |-> <<>>]]
  ELSE IF append /\ fs[path].exists THEN fs
  ELSE [fs EXCEPT ![path] = [exists |-> TRUE, data |-> <<>>]]

RECURSIVE ApplyOpens(_, _)
ApplyOpens(fs, opens) ==
  IF opens = <<>> THEN fs
  ELSE ApplyOpens(OpenFile(fs, Head(opens)[1], Head(opens)[2]), Tail(opens))

\* write_all on a File: fails on the full device.
WriteFails(h, data) == h = "full" /\ data # <<>>

WriteFile(fs, h, data) ==
  IF h = NoHandle \/ h = "full" THEN fs
  ELSE [fs EXCEPT ![h].data = @ \o data]

\* --------------------------------------------------------------- builtins
RECURSIVE Join(_)
Join(args) ==
  IF args = <<>> THEN <<>>
  ELSE IF Len(args) = 1 THEN args
  ELSE <<Head(args), " ">> \o Join(Tail(args))

\* The handlers of builtins.rs: what is written to ctx.stdout, to ctx.stderr,
\* and the working directory afterwards.  The history store is empty, and
\* exit has no handler (run_single_command ends the process itself).
RunBuiltin(tokens, dir) ==
  LET name == tokens[1]
      none == [out |-> <<>>, err |-> <<>>, cwd |-> dir]
  IN CASE name = "cd" ->
            IF Len(tokens) > 1
            THEN IF tokens[2] \in Dirs
                 THEN [none EXCEPT !.cwd = tokens[2]]
                 ELSE [none EXCEPT !.err =
                         <<"cd: ", tokens[2], ": No such file or directory\n">>]
            ELSE none
       [] name = "echo" -> [none EXCEPT !.out = Join(Tail(tokens)) \o <<"\n">>]
       [] name = "pwd" -> [none EXCEPT !.out = <<dir, "\n">>]
       [] name = "type" ->
            IF Len(tokens) > 1
            THEN IF tokens[2] \in BUILTINS
                 THEN [none EXCEPT !.out = <<tokens[2], " is a shell builtin\n">>]
                 ELSE IF tokens[2] \in PathExecutables
                 THEN [none EXCEPT !.out = <<tokens[2], " is ", tokens[2], "\n">>]
                 ELSE [none EXCEPT !.err = <<tokens[2], ": not found\n">>]
            ELSE none
       [] OTHER -> none

\* (mutant) the handler reads all of its stdin.
HandlerReads_stdin(tokens, input) == input

\* What a handler reads of the stdin it is given: no handler touches ctx.stdin.
HandlerReads(tokens, input) == <<>>

\* The handler's result with the ShellIO of a pipeline stage: its stdout is
\* captured in a Vec and depends on the tokens, the directory and whatever
\* the handler read from the stdin it was given.
BuiltinCapture(tokens, dir, stdin) ==
  [RunBuiltin(tokens, dir) EXCEPT !.out = HandlerReads(tokens, stdin) \o @]

\* stdin is the previous child's stdout pipe, if there is one.
run_builtin_for_pipe(tokens, dir, stdin) == BuiltinCapture(tokens, dir, stdin)

\* stdin is a Cursor over prev_data.
run_builtin_with_bytes(tokens, dir, input) == BuiltinCapture(tokens, dir, input)

NotFoundMsg(name) == <<name, ": command not found\n">>
ParseMsg == <<"failed to parse command input\n">>

\* ------------------------------------------------------------------ state
VARIABLES
  shell,        \* "running" | "exited" | "panicked"
  lineNo,       \* lines read so far
  pc,           \* position of the main thread
  segments,     \* the segments of the line being executed
  i,            \* index of the stage the loop is at (1-based, in segments)
  k,            \* index in children of the child the wait loop is at
  children,     \* run_piped_commands' Vec<Child>
  prev_stdout,  \* run_piped_commands' prev_stdout: 0 (None) or the child
  prev_data,    \* run_pipeline_with_input's prev_data
  proc,         \* child processes
  pin, pout, perr,  \* the pipes of each child's stdin, stdout, stderr
  thr,          \* the thread feeding each child's stdin
  files, cwd,   \* file system and working directory
  termOut, termErr,  \* what the terminal received since the line was read
  log,          \* history of the line: errors met, handlers run, what they
                \* were given and what they wrote, spawns and their argv
  phase, sumA,  \* replay harness of the one-stage comparison
  runs, filesBefore,  \* lines run one after the other: how many, and the
                \* file system when the current one was read
  fpc,          \* position of a function applied on its own
  rtokens, shellio,  \* setup_redirections: its argument and its result
  input, parsed      \* parse_pipeline: its argument and its result

mainVars == <<pc, segments, i, k, children, prev_stdout, prev_data>>
osVars == <<proc, pin, pout, perr, thr>>
worldVars == <<files, cwd, termOut, termErr>>
n1Vars == <<phase, sumA>>
seqVars == <<runs, filesBefore>>
funVars == <<fpc, rtokens, shellio, input, parsed>>
harnessVars == <<n1Vars, seqVars, funVars>>
vars == <<shell, lineNo, mainVars, osVars, worldVars, log, harnessVars>>

NoProc == [st |-> "none", prog |-> "", sin |-> "inherit", sout |-> "inherit",
           serr |-> "inherit", drain |-> FALSE, n |-> 0, rd |-> <<>>,
           wr |-> <<>>, we |-> <<>>, waited |-> FALSE, sigpipe |-> FALSE]
NoPipe == [buf |-> <<>>, rd |-> FALSE, wr |-> FALSE]
OpenPipe == [buf |-> <<>>, rd |-> TRUE, wr |-> TRUE]
NoThread == [kind |-> "none", src |-> 0, data |-> <<>>]
NoParse == [segments |-> <<>>, cuts |-> {}]
NoLog == [parse |-> {}, redir |-> {}, notfound |-> {}, ran |-> {},
          spawned |-> {}, early |-> {},
          bout |-> [s \in 1..MaxStages |-> <<>>],
          berr |-> [s \in 1..MaxStages |-> <<>>],
          argv |-> [s \in 1..MaxStages |-> <<>>]]

InitProgram ==
  /\ shell = "running"
  /\ lineNo = 0
  /\ pc = "read"
  /\ segments = <<>>
  /\ i = 0
  /\ k = 0
  /\ children = <<>>
  /\ prev_stdout = 0
  /\ prev_data = <<>>
  /\ proc = [c \in Procs |-> NoProc]
  /\ pin = [c \in Procs |-> NoPipe]
  /\ pout = [c \in Procs |-> NoPipe]
  /\ perr = [c \in Procs |-> NoPipe]
  /\ thr = [c \in Procs |-> NoThread]
  /\ files = [f \in FileNames |-> NoFile]
  /\ cwd = "/"
  /\ termOut = <<>>
  /\ termErr = <<>>
  /\ log = NoLog
  /\ phase = 0
  /\ sumA = <<>>
  /\ runs = 0
  /\ filesBefore = [f \in FileNames |-> NoFile]

\* The interpreter at its first prompt; no function is applied on its own.
Init ==
  /\ InitProgram
  /\ fpc = "idle"
  /\ rtokens = <<>> /\ shellio = ShellIO_new(<<>>)
  /\ input = <<>> /\ parsed = NoParse


\* ------------------------------------------------------- stage prelude
cid(idx) == (lineNo - 1) * MaxStages + idx
IsLast(idx) == idx = Len(segments)

StageSplit(idx) == Split(segments[idx])

\* (mutant) the tokens of every segment pass through setup_redirections.
StageIO_all(idx) == setup_redirections(StageSplit(idx).tokens)

\* Only the last segment's tokens pass through setup_redirections.
StageIO(idx) ==
  IF IsLast(idx) THEN setup_redirections(StageSplit(idx).tokens)
  ELSE ShellIO_new(StageSplit(idx).tokens)

StageRuns(idx) ==
  /\ StageSplit(idx).ok
  /\ StageSplit(idx).tokens # <<>>
  /\ StageIO(idx).ok
  /\ StageIO(idx).tokens # <<>>

StageCmd(idx) == StageIO(idx).tokens[1]

\* The stage whose handler run_builtin_for_pipe / run_builtin_with_bytes
\* calls: exit matches no arm there.
HandlerRun(idx) == IF StageCmd(idx) = "exit" THEN {} ELSE {idx}

\* Stdio::piped() or Stdio::inherit() of ShellIO::stdout_stdio / stderr_stdio.
StdioOf(h) == IF h # NoHandle THEN "pipe" ELSE "inherit"

\* Command::spawn succeeded: the child and the pipes of its piped streams.
SpawnChild(c, prog, sin, sout, serr, drain) ==
  /\ proc' = [proc EXCEPT ![c] = [NoProc EXCEPT !.st = "run", !.prog = prog,
                 !.sin = sin, !.sout = sout, !.serr = serr, !.drain = drain]]
  /\ pin' = IF sin = "pipe" THEN [pin EXCEPT ![c] = OpenPipe] ELSE pin
  /\ pout' = IF sout = "pipe" THEN [pout EXCEPT ![c] = OpenPipe] ELSE pout
  /\ perr' = IF serr = "pipe" THEN [perr EXCEPT ![c] = OpenPipe] ELSE perr

\* ---------------------------------------------------------- read loop
\* (mutant) every line goes to run_single_command with its first segment.
run_pipeline_route_single(segs) == IF Len(segs) = 0 THEN "read" ELSE "single"

run_pipeline_route(segs) ==
  IF Len(segs) = 0 THEN "read"
  ELSE IF Len(segs) = 1 THEN "single"
  ELSE "piped"

\* One iteration of the read loop: a line is read, segmented, and run_pipeline
\* dispatches it.
ReadLine ==
  /\ shell = "running" /\ pc = "read" /\ lineNo < MaxLines
  /\ \E line \in Lines :
       /\ segments' = line
       /\ pc' = run_pipeline_route(line)
  /\ lineNo' = lineNo + 1
  /\ i' = 1 /\ k' = 1
  /\ children' = <<>> /\ prev_stdout' = 0 /\ prev_data' = <<>>
  /\ termOut' = <<>> /\ termErr' = <<>> /\ log' = NoLog
  /\ filesBefore' = files
  /\ UNCHANGED <<shell, osVars, files, cwd, n1Vars, runs, funVars>>

\* End of input from the line editor ends the loop.
ReadEOF ==
  /\ shell = "running" /\ pc = "read"
  /\ shell' = "exited"
  /\ UNCHANGED <<lineNo, mainVars, osVars, worldVars, log, harnessVars>>

\* ------------------------------------------------- run_single_command
SingleParseError ==
  /\ shell = "running" /\ pc = "single"
  /\ ~StageSplit(1).ok
  /\ termErr' = termErr \o ParseMsg
  /\ log' = [log EXCEPT !.parse = @ \cup {1}]
  /\ pc' = "read"
  /\ UNCHANGED <<shell, lineNo, segments, i, k, children, prev_stdout,
                 prev_data, osVars, files, cwd, termOut, harnessVars>>

SingleRedirError ==
  /\ shell = "running" /\ pc = "single"
  /\ StageSplit(1).ok /\ StageSplit(1).tokens # <<>>
  /\ ~StageIO(1).ok
  /\ files' = ApplyOpens(files, StageIO(1).opens)
  /\ termErr' = termErr \o StageIO(1).msg
  /\ log' = [log EXCEPT !.redir = @ \cup {1}]
  /\ pc' = "read"
  /\ UNCHANGED <<shell, lineNo, segments, i, k, children, prev_stdout,
                 prev_data, osVars, cwd, termOut, harnessVars>>

\* No token is left, before or after the redirections are taken out.
SingleEmpty ==
  /\ shell = "running" /\ pc = "single"
  /\ StageSplit(1).ok
  /\ IF StageSplit(1).tokens = <<>>
     THEN files' = files
     ELSE /\ StageIO(1).ok /\ StageIO(1).tokens = <<>>
          /\ files' = ApplyOpens(files, StageIO(1).opens)
  /\ pc' = "read"
  /\ UNCHANGED <<shell, lineNo, segments, i, k, children, prev_stdout,
                 prev_data, osVars, cwd, termOut, termErr, log, harnessVars>>

SingleExit ==
  /\ shell = "running" /\ pc = "single"
  /\ StageRuns(1) /\ StageCmd(1) = "exit"
  /\ files' = ApplyOpens(files, StageIO(1).opens)
  /\ shell' = "exited"
  /\ log' = [log EXCEPT !.ran = @ \cup {1}]
  /\ UNCHANGED <<lineNo, mainVars, osVars, cwd, termOut, termErr, harnessVars>>

\* A handler writes with writeln!(..).unwrap(): a failed write panics.
SingleBuiltin ==
  /\ shell = "running" /\ pc = "single"
  /\ StageRuns(1) /\ StageCmd(1) \in BUILTINS \ {"exit"}
  /\ LET io == StageIO(1)
         r == RunBuiltin(io.tokens, cwd)
         opened == ApplyOpens(files, io.opens)
     IN /\ files' = WriteFile(WriteFile(opened, io.out, r.out), io.err, r.err)
        /\ termOut' = IF io.out = NoHandle THEN termOut \o r.out ELSE termOut
        /\ termErr' = IF io.err = NoHandle THEN termErr \o r.err ELSE termErr
        /\ cwd' = r.cwd
        /\ IF WriteFails(io.out, r.out) \/ WriteFails(io.err, r.err)
           THEN shell' = "panicked" /\ pc' = pc
           ELSE shell' = shell /\ pc' = "read"
  /\ log' = [log EXCEPT !.ran = @ \cup {1},
                        !.bout[1] = RunBuiltin(StageIO(1).tokens, cwd).out,
                        !.berr[1] = RunBuiltin(StageIO(1).tokens, cwd).err,
                        !.argv[1] = StageIO(1).tokens]
  /\ UNCHANGED <<lineNo, segments, i, k, children, prev_stdout, prev_data,
                 osVars, harnessVars>>

\* run_external, spawn failed: the message goes to ctx.stderr.
SingleSpawnFail ==
  /\ shell = "running" /\ pc = "single"
  /\ StageRuns(1) /\ StageCmd(1) \notin BUILTINS
  /\ StageCmd(1) \notin PathExecutables
  /\ LET io == StageIO(1)
         msg == NotFoundMsg(StageCmd(1))
         opened == ApplyOpens(files, io.opens)
     IN /\ files' = WriteFile(opened, io.err, msg)
        /\ termErr' = IF io.err = NoHandle THEN termErr \o msg ELSE termErr
        /\ IF WriteFails(io.err, msg)
           THEN shell' = "panicked" /\ pc' = pc
           ELSE shell' = shell /\ pc' = "read"
  /\ log' = [log EXCEPT !.notfound = @ \cup {1}]
  /\ UNCHANGED <<lineNo, segments, i, k, children, prev_stdout, prev_data,
                 osVars, cwd, termOut, harnessVars>>

\* run_external, spawn succeeded: stdin is inherited (ctx.stdin is None), a
\* redirected stream is piped and wait_with_output drains it from now on.
SingleSpawn ==
  /\ shell = "running" /\ pc = "single"
  /\ StageRuns(1) /\ StageCmd(1) \in PathExecutables
  /\ LET io == StageIO(1) IN
       /\ files' = ApplyOpens(files, io.opens)
       /\ SpawnChild(cid(1), StageCmd(1), "inherit", StdioOf(io.out),
                     StdioOf(io.err), TRUE)
  /\ log' = [log EXCEPT !.spawned = @ \cup {cid(1)},
                        !.argv[1] = StageIO(1).tokens]
  /\ pc' = "single_wait"
  /\ UNCHANGED <<shell, lineNo, segments, i, k, children, prev_stdout,
                 prev_data, thr, cwd, termOut, termErr, harnessVars>>

\* wait_with_output returned: the captured output is written to the files.
SingleWait ==
  /\ shell = "running" /\ pc = "single_wait"
  /\ proc[cid(1)].st = "exit"
  /\ LET io == StageIO(1)
         c == cid(1)
         out == pout[c].buf
         err == perr[c].buf
     IN /\ files' = WriteFile(WriteFile(files, io.out, out), io.err, err)
        /\ IF WriteFails(io.out, out) \/ WriteFails(io.err, err)
           THEN shell' = "panicked" /\ pc' = pc
           ELSE shell' = shell /\ pc' = "read"
        /\ proc' = [proc EXCEPT ![c].waited = TRUE]
        /\ pout' = [pout EXCEPT ![c] = NoPipe]
        /\ perr' = [perr EXCEPT ![c] = NoPipe]
  /\ UNCHANGED <<lineNo, segments, i, k, children, prev_stdout, prev_data,
                 pin, thr, cwd, termOut, termErr, log, harnessVars>>


\* ------------------------------------------------------ child processes
\* Room a write finds in a pipe: a pipe wait_with_output drains never fills.
Room(c, P) == IF proc[c].drain THEN GenLen + Len(P[c].buf) + 1
              ELSE PipeCap - Len(P[c].buf)

StdinRoom(c) == PipeCap - Len(pin[c].buf)

CloseEnds(c) ==
  /\ pin' = [pin EXCEPT ![c].rd = FALSE]
  /\ pout' = [pout EXCEPT ![c].wr = FALSE]
  /\ perr' = [perr EXCEPT ![c].wr = FALSE]

\* gen writes its next atoms to its stdout.
ChildGen(c) ==
  /\ proc[c].st = "run" /\ proc[c].prog = "gen" /\ proc[c].n < GenLen
  /\ LET rest == Drop(GenData, proc[c].n) IN
       IF proc[c].sout = "inherit"
       THEN /\ termOut' = termOut \o rest
            /\ proc' = [proc EXCEPT ![c].n = GenLen, ![c].wr = @ \o rest]
            /\ pout' = pout
       ELSE /\ pout[c].rd /\ Room(c, pout) > 0
            /\ LET chunk == Take(rest, Room(c, pout)) IN
                 /\ pout' = [pout EXCEPT ![c].buf = @ \o chunk]
                 /\ proc' = [proc EXCEPT ![c].n = @ + Len(chunk),
                                         ![c].wr = @ \o chunk]
            /\ termOut' = termOut
  /\ UNCHANGED <<shell, lineNo, mainVars, pin, perr, thr, files, cwd,
                 termErr, log, harnessVars>>

\* err writes one atom to its stderr.
ChildErr(c) ==
  /\ proc[c].st = "run" /\ proc[c].prog = "err" /\ proc[c].n < 1
  /\ IF proc[c].serr = "inherit"
     THEN termErr' = termErr \o <<"e">> /\ perr' = perr
     ELSE /\ perr[c].rd /\ Room(c, perr) > 0
          /\ perr' = [perr EXCEPT ![c].buf = @ \o <<"e">>]
          /\ termErr' = termErr
  /\ proc' = [proc EXCEPT ![c].n = 1, ![c].we = @ \o <<"e">>]
  /\ UNCHANGED <<shell, lineNo, mainVars, pin, pout, thr, files, cwd,
                 termOut, log, harnessVars>>

\* cat moves what its stdin pipe holds to its stdout.
ChildCat(c) ==
  /\ proc[c].st = "run" /\ proc[c].prog = "cat"
  /\ proc[c].sin = "pipe" /\ pin[c].buf # <<>>
  /\ IF proc[c].sout = "inherit"
     THEN /\ termOut' = termOut \o pin[c].buf
          /\ proc' = [proc EXCEPT ![c].rd = @ \o pin[c].buf,
                                  ![c].wr = @ \o pin[c].buf]
          /\ pin' = [pin EXCEPT ![c].buf = <<>>]
          /\ pout' = pout
     ELSE /\ pout[c].rd /\ Room(c, pout) > 0
          /\ LET chunk == Take(pin[c].buf, Room(c, pout)) IN
               /\ pout' = [pout EXCEPT ![c].buf = @ \o chunk]
               /\ pin' = [pin EXCEPT ![c].buf = Drop(@, Len(chunk))]
               /\ proc' = [proc EXCEPT ![c].rd = @ \o chunk,
                                       ![c].wr = @ \o chunk]
          /\ termOut' = termOut
  /\ UNCHANGED <<shell, lineNo, mainVars, perr, thr, files, cwd, termErr,
                 log, harnessVars>>

\* The child's next write goes to a pipe whose read end is closed: SIGPIPE.
ChildSigpipe(c) ==
  /\ proc[c].st = "run"
  /\ \/ /\ proc[c].prog = "gen" /\ proc[c].n < GenLen
        /\ proc[c].sout = "pipe" /\ ~pout[c].rd
     \/ /\ proc[c].prog = "cat" /\ proc[c].sin = "pipe" /\ pin[c].buf # <<>>
        /\ proc[c].sout = "pipe" /\ ~pout[c].rd
     \/ /\ proc[c].prog = "err" /\ proc[c].n < 1
        /\ proc[c].serr = "pipe" /\ ~perr[c].rd
  /\ proc' = [proc EXCEPT ![c].st = "exit", ![c].sigpipe = TRUE]
  /\ CloseEnds(c)
  /\ UNCHANGED <<shell, lineNo, mainVars, thr, worldVars, log, harnessVars>>

\* The child has written its output, or read its input to EOF (the terminal
\* is at EOF), and exits.
ChildExit(c) ==
  /\ proc[c].st = "run"
  /\ CASE proc[c].prog = "gen" -> proc[c].n = GenLen
       [] proc[c].prog = "err" -> proc[c].n = 1
       [] OTHER -> \/ proc[c].sin = "inherit"
                   \/ pin[c].buf = <<>> /\ ~pin[c].wr
  /\ proc' = [proc EXCEPT ![c].st = "exit"]
  /\ CloseEnds(c)
  /\ UNCHANGED <<shell, lineNo, mainVars, thr, worldVars, log, harnessVars>>

\* ------------------------------------------------------------- threads
DoneThread == [kind |-> "done", src |-> 0, data |-> <<>>]

\* std::io::copy(&mut prev_out, &mut child_stdin), one transfer.
ThreadCopy(c) ==
  /\ thr[c].kind = "copy"
  /\ LET s == thr[c].src IN
       /\ pout[s].buf # <<>> /\ pin[c].rd /\ StdinRoom(c) > 0
       /\ LET chunk == Take(pout[s].buf, StdinRoom(c)) IN
            /\ pin' = [pin EXCEPT ![c].buf = @ \o chunk]
            /\ pout' = [pout EXCEPT ![s].buf = Drop(@, Len(chunk))]
  /\ UNCHANGED <<shell, lineNo, mainVars, proc, perr, thr, worldVars, log,
                 harnessVars>>

\* io::copy returns at EOF of the source or when the write fails; the thread
\* ends and both handles are dropped.
ThreadCopyEnd(c) ==
  /\ thr[c].kind = "copy"
  /\ LET s == thr[c].src IN
       /\ \/ pout[s].buf = <<>> /\ ~pout[s].wr
          \/ pout[s].buf # <<>> /\ ~pin[c].rd
       /\ pout' = [pout EXCEPT ![s].rd = FALSE]
       /\ pin' = [pin EXCEPT ![c].wr = FALSE]
  /\ thr' = [thr EXCEPT ![c] = DoneThread]
  /\ UNCHANGED <<shell, lineNo, mainVars, proc, perr, worldVars, log,
                 harnessVars>>

\* child_stdin.write_all(&data), one transfer.
ThreadFeed(c) ==
  /\ thr[c].kind = "feed" /\ thr[c].data # <<>>
  /\ pin[c].rd /\ StdinRoom(c) > 0
  /\ LET chunk == Take(thr[c].data, StdinRoom(c)) IN
       /\ pin' = [pin EXCEPT ![c].buf = @ \o chunk]
       /\ thr' = [thr EXCEPT ![c].data = Drop(@, Len(chunk))]
  /\ UNCHANGED <<shell, lineNo, mainVars, proc, pout, perr, worldVars, log,
                 harnessVars>>

\* (mutant) child_stdin outlives the thread.
drop_child_stdin_leak(p) == p

\* child_stdin is dropped when the closure returns: the write end closes.
drop_child_stdin(p) == [p EXCEPT !.wr = FALSE]

\* write_all returned (everything written, or the write failed); the thread
\* ends and child_stdin is dropped.
ThreadFeedEnd(c) ==
  /\ thr[c].kind = "feed"
  /\ thr[c].data = <<>> \/ ~pin[c].rd
  /\ pin' = [pin EXCEPT ![c] = drop_child_stdin(@)]
  /\ thr' = [thr EXCEPT ![c] = DoneThread]
  /\ UNCHANGED <<shell, lineNo, mainVars, proc, pout, perr, worldVars, log,
                 harnessVars>>


\* ------------------------------------------------- run_piped_commands
\* A ChildStdout that is dropped: the read end of that child's stdout closes.
DropStdout(P, c) == IF c = 0 THEN P ELSE [P EXCEPT ![c].rd = FALSE]

\* The loop goes on to the next segment, or to the wait loop after the last.
PipedAdvance ==
  /\ i' = i + 1
  /\ pc' = IF IsLast(i) THEN "piped_wait" ELSE "piped"

\* What the builtin's captured output is used for in run_piped_commands.
piped_builtin_route(is_last) == IF is_last THEN "print" ELSE "with_input"

\* stdout_cfg of an external stage.
piped_stdout_cfg(is_last, io) == IF is_last THEN StdioOf(io.out) ELSE "pipe"

PipedParseError ==
  /\ shell = "running" /\ pc = "piped"
  /\ ~StageSplit(i).ok
  /\ termErr' = termErr \o ParseMsg
  /\ log' = [log EXCEPT !.parse = @ \cup {i}, !.early = @ \cup {i}]
  /\ pout' = DropStdout(pout, prev_stdout)
  /\ prev_stdout' = 0
  /\ pc' = "read"
  /\ UNCHANGED <<shell, lineNo, segments, i, k, children, prev_data, proc,
                 pin, perr, thr, files, cwd, termOut, harnessVars>>

PipedRedirError ==
  /\ shell = "running" /\ pc = "piped"
  /\ StageSplit(i).ok /\ StageSplit(i).tokens # <<>>
  /\ ~StageIO(i).ok
  /\ files' = ApplyOpens(files, StageIO(i).opens)
  /\ termErr' = termErr \o StageIO(i).msg
  /\ log' = [log EXCEPT !.redir = @ \cup {i}, !.early = @ \cup {i}]
  /\ pout' = DropStdout(pout, prev_stdout)
  /\ prev_stdout' = 0
  /\ pc' = "read"
  /\ UNCHANGED <<shell, lineNo, segments, i, k, children, prev_data, proc,
                 pin, perr, thr, cwd, termOut, harnessVars>>

PipedSkip ==
  /\ shell = "running" /\ pc = "piped"
  /\ StageSplit(i).ok
  /\ IF StageSplit(i).tokens = <<>>
     THEN files' = files
     ELSE /\ StageIO(i).ok /\ StageIO(i).tokens = <<>>
          /\ files' = ApplyOpens(files, StageIO(i).opens)
  /\ PipedAdvance
  /\ UNCHANGED <<shell, lineNo, segments, k, children, prev_stdout,
                 prev_data, osVars, cwd, termOut, termErr, log, harnessVars>>

\* The bytes a read of prev_stdout would find in the pipe.
PrevStdoutBytes == IF prev_stdout = 0 THEN <<>> ELSE pout[prev_stdout].buf

\* A builtin stage: run_builtin_for_pipe captures the handler's stdout in a
\* Vec, its stderr is the terminal's, its stdin is prev_stdout, which no
\* handler reads and which is dropped when the handler returns.  The output
\* of the last stage is printed; otherwise the rest of the line goes to
\* run_pipeline_with_input.
PipedBuiltin ==
  /\ shell = "running" /\ pc = "piped"
  /\ StageRuns(i) /\ StageCmd(i) \in BUILTINS
  /\ LET io == StageIO(i)
         r == run_builtin_for_pipe(io.tokens, cwd, PrevStdoutBytes)
     IN /\ files' = ApplyOpens(files, io.opens)
        /\ termErr' = termErr \o r.err
        /\ cwd' = r.cwd
        /\ IF piped_builtin_route(IsLast(i)) = "print"
           THEN /\ termOut' = termOut \o r.out
                /\ prev_data' = prev_data
                /\ PipedAdvance
           ELSE /\ termOut' = termOut
                /\ prev_data' = r.out
                /\ i' = i + 1
                /\ pc' = "wi"
        /\ log' = [log EXCEPT !.ran = @ \cup HandlerRun(i),
                              !.bout[i] = r.out,
                              !.berr[i] = r.err,
                              !.argv[i] = io.tokens]
  /\ pout' = DropStdout(pout, prev_stdout)
  /\ prev_stdout' = 0
  /\ UNCHANGED <<shell, lineNo, segments, k, children, proc, pin, perr, thr,
                 harnessVars>>

PipedSpawnFail ==
  /\ shell = "running" /\ pc = "piped"
  /\ StageRuns(i) /\ StageCmd(i) \notin BUILTINS
  /\ StageCmd(i) \notin PathExecutables
  /\ files' = ApplyOpens(files, StageIO(i).opens)
  /\ termErr' = termErr \o NotFoundMsg(StageCmd(i))
  /\ log' = [log EXCEPT !.notfound = @ \cup {i}, !.early = @ \cup {i}]
  /\ pout' = DropStdout(pout, prev_stdout)
  /\ prev_stdout' = 0
  /\ pc' = "read"
  /\ UNCHANGED <<shell, lineNo, segments, i, k, children, prev_data, proc,
                 pin, perr, thr, cwd, termOut, harnessVars>>

\* An external stage: stdin is piped when prev_stdout is Some, and a thread
\* then copies prev_stdout into it; stdout is piped unless this is the last
\* stage, whose stdout and stderr follow the ShellIO; the stdout of a stage
\* that is not the last becomes prev_stdout.
PipedSpawn ==
  /\ shell = "running" /\ pc = "piped"
  /\ StageRuns(i) /\ StageCmd(i) \in PathExecutables
  /\ LET io == StageIO(i)
         c == cid(i)
     IN /\ files' = ApplyOpens(files, io.opens)
        /\ SpawnChild(c, StageCmd(i),
                      IF prev_stdout # 0 THEN "pipe" ELSE "inherit",
                      piped_stdout_cfg(IsLast(i), io), StdioOf(io.err), FALSE)
        /\ thr' = IF prev_stdout # 0
                  THEN [thr EXCEPT ![c] = [kind |-> "copy", src |-> prev_stdout,
                                           data |-> <<>>]]
                  ELSE thr
        /\ prev_stdout' = IF IsLast(i) THEN 0 ELSE c
        /\ children' = Append(children, c)
        /\ log' = [log EXCEPT !.spawned = @ \cup {c}, !.argv[i] = io.tokens]
  /\ PipedAdvance
  /\ UNCHANGED <<shell, lineNo, segments, k, prev_data, cwd, termOut,
                 termErr, harnessVars>>

\* child.wait() of the wait loop returned; the Child is dropped, and with it
\* the pipe ends it still holds (those of the last stage).
PipedWait ==
  /\ shell = "running" /\ pc = "piped_wait"
  /\ k <= Len(children)
  /\ proc[children[k]].st = "exit"
  /\ LET c == children[k] IN
       /\ proc' = [proc EXCEPT ![c].waited = TRUE]
       /\ pout' = IF c = cid(Len(segments)) THEN DropStdout(pout, c) ELSE pout
       /\ perr' = DropStdout(perr, c)
  /\ k' = k + 1
  /\ UNCHANGED <<shell, lineNo, pc, segments, i, children, prev_stdout,
                 prev_data, pin, thr, worldVars, log, harnessVars>>

\* Every child of the Vec has been waited on; the function returns.
PipedReturn ==
  /\ shell = "running" /\ pc = "piped_wait"
  /\ k > Len(children)
  /\ pout' = DropStdout(pout, prev_stdout)
  /\ prev_stdout' = 0
  /\ pc' = "read"
  /\ UNCHANGED <<shell, lineNo, segments, i, k, children, prev_data, proc,
                 pin, perr, thr, worldVars, log, harnessVars>>

\* --------------------------------------------- run_pipeline_with_input
\* The loop goes on to the next segment, or the function returns (and
\* run_piped_commands returns after it).
WIAdvance ==
  /\ i' = i + 1
  /\ pc' = IF IsLast(i) THEN "read" ELSE "wi"

\* (mutant) prev_data is not replaced by the captured stdout.
wi_next_prev_data_stale(is_last, captured, prev) == prev

\* prev_data after an external stage: its captured stdout, unless it is the
\* last stage.
wi_next_prev_data(is_last, captured, prev) == IF is_last THEN prev ELSE captured

\* What is written to the terminal after the last external stage.
wi_last_output(is_last, io, captured) ==
  IF is_last /\ io.out = NoHandle THEN captured ELSE <<>>

WIParseError ==
  /\ shell = "running" /\ pc = "wi"
  /\ ~StageSplit(i).ok
  /\ termErr' = termErr \o ParseMsg
  /\ log' = [log EXCEPT !.parse = @ \cup {i}, !.early = @ \cup {i}]
  /\ pc' = "read"
  /\ UNCHANGED <<shell, lineNo, segments, i, k, children, prev_stdout,
                 prev_data, osVars, files, cwd, termOut, harnessVars>>

WIRedirError ==
  /\ shell = "running" /\ pc = "wi"
  /\ StageSplit(i).ok /\ StageSplit(i).tokens # <<>>
  /\ ~StageIO(i).ok
  /\ files' = ApplyOpens(files, StageIO(i).opens)
  /\ termErr' = termErr \o StageIO(i).msg
  /\ log' = [log EXCEPT !.redir = @ \cup {i}, !.early = @ \cup {i}]
  /\ pc' = "read"
  /\ UNCHANGED <<shell, lineNo, segments, i, k, children, prev_stdout,
                 prev_data, osVars, cwd, termOut, harnessVars>>

WISkip ==
  /\ shell = "running" /\ pc = "wi"
  /\ StageSplit(i).ok
  /\ IF StageSplit(i).tokens = <<>>
     THEN files' = files
     ELSE /\ StageIO(i).ok /\ StageIO(i).tokens = <<>>
          /\ files' = ApplyOpens(files, StageIO(i).opens)
  /\ WIAdvance
  /\ UNCHANGED <<shell, lineNo, segments, k, children, prev_stdout,
                 prev_data, osVars, cwd, termOut, termErr, log, harnessVars>>

\* A builtin stage: run_builtin_with_bytes gives the handler prev_data as its
\* stdin (no handler reads it) and captures its stdout in a Vec.
WIBuiltin ==
  /\ shell = "running" /\ pc = "wi"
  /\ StageRuns(i) /\ StageCmd(i) \in BUILTINS
  /\ LET io == StageIO(i)
         r == run_builtin_with_bytes(io.tokens, cwd, prev_data)
     IN /\ files' = ApplyOpens(files, io.opens)
        /\ termErr' = termErr \o r.err
        /\ cwd' = r.cwd
        /\ termOut' = IF IsLast(i) THEN termOut \o r.out ELSE termOut
        /\ prev_data' = IF IsLast(i) THEN <<>> ELSE r.out
        /\ log' = [log EXCEPT !.ran = @ \cup HandlerRun(i),
                              !.bout[i] = r.out,
                              !.berr[i] = r.err,
                              !.argv[i] = io.tokens]
  /\ WIAdvance
  /\ UNCHANGED <<shell, lineNo, segments, k, children, prev_stdout, osVars,
                 harnessVars>>

WISpawnFail ==
  /\ shell = "running" /\ pc = "wi"
  /\ StageRuns(i) /\ StageCmd(i) \notin BUILTINS
  /\ StageCmd(i) \notin PathExecutables
  /\ files' = ApplyOpens(files, StageIO(i).opens)
  /\ termErr' = termErr \o NotFoundMsg(StageCmd(i))
  /\ log' = [log EXCEPT !.notfound = @ \cup {i}, !.early = @ \cup {i}]
  /\ pc' = "read"
  /\ UNCHANGED <<shell, lineNo, segments, i, k, children, prev_stdout,
                 prev_data, osVars, cwd, termOut, harnessVars>>

\* An external stage: stdin is piped and a thread writes a clone of
\* prev_data into it; wait_with_output follows at once and drains the piped
\* stdout and stderr.
WISpawn ==
  /\ shell = "running" /\ pc = "wi"
  /\ StageRuns(i) /\ StageCmd(i) \in PathExecutables
  /\ LET io == StageIO(i)
         c == cid(i)
     IN /\ files' = ApplyOpens(files, io.opens)
        /\ SpawnChild(c, StageCmd(i), "pipe",
                      piped_stdout_cfg(IsLast(i), io), StdioOf(io.err), TRUE)
        /\ thr' = [thr EXCEPT ![c] = [kind |-> "feed", src |-> 0,
                                      data |-> prev_data]]
        /\ log' = [log EXCEPT !.spawned = @ \cup {c}, !.argv[i] = io.tokens]
  /\ pc' = "wi_wait"
  /\ UNCHANGED <<shell, lineNo, segments, i, k, children, prev_stdout,
                 prev_data, cwd, termOut, termErr, harnessVars>>

\* (mutant) the wait returns while the child still runs.
wait_with_output_early(p) == p.st # "none"

\* Child::wait_with_output returns when the child has exited.
wait_with_output_returns(p) == p.st = "exit"

\* wait_with_output returned: the captured stdout of the last stage is
\* written to the terminal unless stdout is redirected; that of another
\* stage becomes prev_data.
WIWait ==
  /\ shell = "running" /\ pc = "wi_wait"
  /\ wait_with_output_returns(proc[cid(i)])
  /\ LET io == StageIO(i)
         c == cid(i)
         captured == pout[c].buf
     IN /\ termOut' = termOut \o wi_last_output(IsLast(i), io, captured)
        /\ prev_data' = wi_next_prev_data(IsLast(i), captured, prev_data)
        /\ proc' = [proc EXCEPT ![c].waited = TRUE]
        /\ pout' = [pout EXCEPT ![c] = NoPipe]
        /\ perr' = [perr EXCEPT ![c] = NoPipe]
  /\ WIAdvance
  /\ UNCHANGED <<shell, lineNo, segments, k, children, prev_stdout, pin, thr,
                 files, cwd, termErr, log, harnessVars>>

\* ------------------------------------------------------- specification
MainStep ==
  \/ ReadLine \/ ReadEOF
  \/ SingleParseError \/ SingleRedirError \/ SingleEmpty \/ SingleExit
  \/ SingleBuiltin \/ SingleSpawnFail \/ SingleSpawn \/ SingleWait
  \/ PipedParseError \/ PipedRedirError \/ PipedSkip \/ PipedBuiltin
  \/ PipedSpawnFail \/ PipedSpawn \/ PipedWait \/ PipedReturn
  \/ WIParseError \/ WIRedirError \/ WISkip \/ WIBuiltin
  \/ WISpawnFail \/ WISpawn \/ WIWait

ChildStep ==
  \E c \in Procs :
    \/ ChildGen(c) \/ ChildErr(c) \/ ChildCat(c) \/ ChildSigpipe(c)
    \/ ChildExit(c)

ThreadStep ==
  \E c \in Procs :
    \/ ThreadCopy(c) \/ ThreadCopyEnd(c) \/ ThreadFeed(c) \/ ThreadFeedEnd(c)

Next == MainStep \/ ChildStep \/ ThreadStep

Spec == Init /\ [][Next]_vars


\* ================================================================ claims
\* run_pipeline has returned for the line that was read.
LineDone == lineNo > 0 /\ pc = "read" /\ shell = "running"

RegularFiles == {"f"}

Stages == 1..Len(segments)

\* What the stage at idx wrote to its stdout and stderr, when it ran.
StageWroteOut(idx) ==
  IF cid(idx) \in log.spawned THEN proc[cid(idx)].wr ELSE log.bout[idx]

StageWroteErr(idx) ==
  IF cid(idx) \in log.spawned THEN proc[cid(idx)].we ELSE log.berr[idx]

StageExecuted(idx) == idx \in log.ran \/ cid(idx) \in log.spawned

Contains2(seq, a, b) ==
  \E p \in 1..(Len(seq) - 1) : seq[p] = a /\ seq[p + 1] = b

\* C1: once run_pipeline has returned, what the terminal stage wrote to its
\* stdout (stderr) is in the file the stream was redirected to and not on the
\* terminal, or on the terminal when the stream was not redirected.
C1_TerminalSink ==
  (LineDone /\ Len(segments) >= 1 /\ StageExecuted(Len(segments))) =>
    LET last == Len(segments)
        io == StageIO(last)
    IN /\ io.out \in RegularFiles =>
            files[io.out].data = StageWroteOut(last) /\ termOut = <<>>
       /\ io.out = NoHandle => termOut = StageWroteOut(last)
       /\ (io.err \in RegularFiles /\ io.err # io.out) =>
            files[io.err].data = StageWroteErr(last)

\* C2: when run_pipeline returns without having met an error, every child
\* spawned for the line has exited and has been waited on.
C2_ChildrenReaped ==
  (LineDone /\ log.early = {}) =>
    \A c \in log.spawned : proc[c].st = "exit" /\ proc[c].waited

\* C3: after a failed spawn at stage idx of a multi-stage line the error names
\* the command, no later stage was spawned, and every earlier child has
\* exited and has been waited on when run_pipeline returns.
C3_SpawnFailure ==
  (LineDone /\ Len(segments) > 1) =>
    \A idx \in log.notfound :
      /\ Contains2(termErr, StageCmd(idx), ": command not found\n")
      /\ \A j \in Stages : j > idx => cid(j) \notin log.spawned
      /\ \A j \in Stages : (j < idx /\ cid(j) \in log.spawned) =>
            proc[cid(j)].st = "exit" /\ proc[cid(j)].waited

\* C6: after a tokenizer failure no handler has run and no child has been
\* spawned for the line.
C6_ParseErrorAbandons ==
  log.parse # {} => log.ran = {} /\ log.spawned = {}

\* C7: after a failed redirection resolution no handler has run and no child
\* has been spawned for the line.
C7_RedirErrorAbandons ==
  log.redir # {} => log.ran = {} /\ log.spawned = {}

\* C8: the interpreter never panics.
C8_NoPanic == shell # "panicked"

\* C10: a builtin that follows an external stage has run only after that
\* child exited, and has read everything the child wrote.
C10_BuiltinAfterChildExit ==
  \A idx \in Stages :
    (idx > 1 /\ idx \in log.ran /\ cid(idx - 1) \in log.spawned) =>
      /\ proc[cid(idx - 1)].st = "exit"
      /\ HandlerReads(StageIO(idx).tokens, proc[cid(idx - 1)].wr)
           = proc[cid(idx - 1)].wr


\* C4: while a line is being executed the system is never stuck: the main
\* thread, a child or a copy thread can always take a step.
C4_NoDeadlock == (shell = "running" /\ pc # "read") => ENABLED Next

\* The child of an external stage read its stdin to EOF and exited.
ReadToEOF(c) ==
  /\ proc[c].prog = "cat" /\ proc[c].sin = "pipe"
  /\ proc[c].st = "exit" /\ ~proc[c].sigpipe

\* C9: what an external stage has read on its stdin is at every moment a
\* prefix of what the stage before it has written on its stdout, and is all
\* of it once the stage has read its stdin to EOF.
C9_ByteExact ==
  \A idx \in Stages :
    (idx > 1 /\ cid(idx) \in log.spawned /\ StageExecuted(idx - 1)) =>
      /\ IsPrefix(proc[cid(idx)].rd, StageWroteOut(idx - 1))
      /\ ReadToEOF(cid(idx)) => proc[cid(idx)].rd = StageWroteOut(idx - 1)

\* An external stage of run_piped_commands has read to EOF, through the pipe
\* and the copy thread, more than a pipe holds from the external stage before
\* it.
C9_WitnessCopy ==
  /\ cid(1) \in log.spawned /\ cid(2) \in log.spawned
  /\ thr[cid(2)].kind = "done"
  /\ ReadToEOF(cid(2))
  /\ Len(proc[cid(2)].rd) > PipeCap

\* An external stage of run_pipeline_with_input has read to EOF the output of
\* the builtin before it (more than a pipe holds).
C9_WitnessFeed ==
  /\ 1 \in log.ran /\ cid(2) \in log.spawned
  /\ ReadToEOF(cid(2))
  /\ proc[cid(2)].rd = log.bout[1]
  /\ Len(proc[cid(2)].rd) > PipeCap


\* ------------------------------------- one stage, run both ways (C5)
\* The same one-segment line is executed by run_single_command, as
\* run_pipeline dispatches it, and then, from the same initial state, by
\* run_piped_commands; what each run leaves behind is compared.
Quiescent == \A c \in Procs : proc[c].st # "run"

RunOver == (pc = "read" \/ shell # "running") /\ Quiescent

Summary ==
  [termOut |-> termOut, termErr |-> termErr, files |-> files, cwd |-> cwd,
   shell |-> shell, spawned |-> { proc[c].prog : c \in log.spawned }]

N1Start ==
  /\ phase = 0 /\ shell = "running" /\ pc = "read" /\ lineNo = 0
  /\ \E seg \in SegMenu :
       /\ segments' = <<seg>>
       /\ pc' = run_pipeline_route(<<seg>>)
  /\ phase' = 1
  /\ lineNo' = 1
  /\ i' = 1 /\ k' = 1
  /\ UNCHANGED <<shell, children, prev_stdout, prev_data, osVars, worldVars,
                 log, sumA, seqVars, funVars>>

N1Replay ==
  /\ phase = 1 /\ RunOver
  /\ sumA' = Summary
  /\ phase' = 2
  /\ shell' = "running"
  /\ pc' = "piped"
  /\ i' = 1 /\ k' = 1
  /\ children' = <<>> /\ prev_stdout' = 0 /\ prev_data' = <<>>
  /\ proc' = [c \in Procs |-> NoProc]
  /\ pin' = [c \in Procs |-> NoPipe]
  /\ pout' = [c \in Procs |-> NoPipe]
  /\ perr' = [c \in Procs |-> NoPipe]
  /\ thr' = [c \in Procs |-> NoThread]
  /\ files' = [f \in FileNames |-> NoFile]
  /\ cwd' = "/"
  /\ termOut' = <<>> /\ termErr' = <<>>
  /\ log' = NoLog
  /\ UNCHANGED <<lineNo, segments, seqVars, funVars>>

NextN1 ==
  \/ N1Start \/ N1Replay
  \/ SingleParseError \/ SingleRedirError \/ SingleEmpty \/ SingleExit
  \/ SingleBuiltin \/ SingleSpawnFail \/ SingleSpawn \/ SingleWait
  \/ PipedParseError \/ PipedRedirError \/ PipedSkip \/ PipedBuiltin
  \/ PipedSpawnFail \/ PipedSpawn \/ PipedWait \/ PipedReturn
  \/ \E c \in Procs : ChildGen(c) \/ ChildErr(c) \/ ChildExit(c)

SpecN1 == Init /\ [][NextN1]_vars

\* C5: a one-segment line leaves the same terminal output, files, working
\* directory, interpreter state and spawned programs behind whether
\* run_single_command or run_piped_commands executes it.
C5_SingleEqualsN1 == (phase = 2 /\ RunOver) => Summary = sumA


\* ---------------------------------- setup_redirections on its own
MaxTokens == 4

RedirAlphabet == {"x", "f", "nodir/f"} \cup AllOps
TokenLists == UNION { [1..m -> RedirAlphabet] : m \in 0..MaxTokens }

InitRedir ==
  /\ InitProgram
  /\ fpc = "redir"
  /\ rtokens \in TokenLists /\ shellio = ShellIO_new(<<>>)
  /\ input = <<>> /\ parsed = NoParse

\* A caller hands its token list to setup_redirections: the files are opened
\* during the scan, and the result is the ShellIO or the error.
Resolve ==
  /\ fpc = "redir"
  /\ shellio' = setup_redirections(rtokens)
  /\ files' = ApplyOpens(files, setup_redirections(rtokens).opens)
  /\ fpc' = "done"
  /\ UNCHANGED <<shell, lineNo, mainVars, osVars, cwd, termOut, termErr, log,
                 n1Vars, seqVars, rtokens, input, parsed>>

\* A target file may exist, with content, before the resolver is called.
Prefill ==
  /\ fpc = "redir"
  /\ \E path \in {"f", "x"} :
       /\ ~files[path].exists
       /\ files' = [files EXCEPT ![path] = [exists |-> TRUE,
                                            data |-> <<"old">>]]
  /\ filesBefore' = files'
  /\ UNCHANGED <<shell, lineNo, mainVars, osVars, cwd, termOut, termErr, log,
                 n1Vars, runs, funVars>>

NextRedir == Prefill \/ Resolve

SpecRedir == InitRedir /\ [][NextRedir]_vars

Resolved == fpc = "done" /\ shellio.ok

MaxOf(S) == CHOOSE m \in S : \A n \in S : n <= m

\* The token at j is an operator of the scan: it has the form of one and is
\* not the filename of the operator before it.
RECURSIVE IsOp(_, _)
IsOp(tokens, j) ==
  /\ tokens[j] \in AllOps
  /\ ~(j > 1 /\ tokens[j - 1] \in FileOps /\ IsOp(tokens, j - 1))

OpsAt(tokens) == { j \in 1..Len(tokens) : IsOp(tokens, j) }

\* The operators before position p that target stdout, and the file of the
\* last of them.
StdoutOpsBefore(tokens, p) ==
  { j \in OpsAt(tokens) : j < p /\ tokens[j] \in StdoutOps \cup BothOps }

StdoutAt(tokens, p) ==
  IF StdoutOpsBefore(tokens, p) = {} THEN NoHandle
  ELSE tokens[MaxOf(StdoutOpsBefore(tokens, p)) + 1]

StderrOpsIn(tokens) ==
  { j \in OpsAt(tokens) : tokens[j] \in StderrOps \cup BothOps \cup {"2>&1"} }

\* C11: when the last operator that sets stderr is 2>&1, stderr is what
\* stdout was resolved to by the operators before it (inherited when there
\* is none, whatever 2> came earlier and whatever > comes later); and a token
\* list whose only operators are 2>&1 opens no file.
C11_DupStderr ==
  /\ Resolved =>
       \A p \in StderrOpsIn(rtokens) :
         (p = MaxOf(StderrOpsIn(rtokens)) /\ rtokens[p] = "2>&1") =>
            shellio.err = StdoutAt(rtokens, p)
  /\ (fpc = "done" /\ \A j \in OpsAt(rtokens) : rtokens[j] = "2>&1") =>
       files = filesBefore

\* 2>&1 after a stdout redirection: stderr is a handle on the same file.
C11_WitnessFile ==
  /\ Resolved /\ rtokens = <<"x", ">", "f", "2>&1">>
  /\ shellio.err = "f" /\ shellio.out = "f"

\* 2>&1 before any stdout redirection drops the earlier 2> target.
C11_WitnessDiscard ==
  /\ Resolved /\ rtokens = <<"x", "2>", "f", "2>&1">>
  /\ shellio.err = NoHandle /\ files["f"].exists

\* A later > does not change what 2>&1 gave stderr.
C11_WitnessLater ==
  /\ Resolved /\ rtokens = <<"x", "2>&1", ">", "f">>
  /\ shellio.err = NoHandle /\ shellio.out = "f"

\* 2>&1 alone: nothing is opened.
C11_WitnessAlone ==
  /\ Resolved /\ rtokens = <<"x", "x", "2>&1">>
  /\ \A f \in FileNames : ~files[f].exists


\* The target the last operator that sets stderr gives it.
StderrFinal(tokens) ==
  IF StderrOpsIn(tokens) = {} THEN NoHandle
  ELSE LET p == MaxOf(StderrOpsIn(tokens)) IN
         IF tokens[p] = "2>&1" THEN StdoutAt(tokens, p) ELSE tokens[p + 1]

\* C12: the resolved stdout is the file of the last operator of the list that
\* targets stdout (>, 1>, >>, 1>>, &>), the resolved stderr is what the last
\* operator that targets stderr (2>, 2>>, &>, 2>&1) sets, and a stream no
\* operator targets is inherited.
C12_LastWins ==
  Resolved =>
    /\ shellio.out = StdoutAt(rtokens, Len(rtokens) + 1)
    /\ shellio.err = StderrFinal(rtokens)

\* Two operators target stdout with different files: the second one wins.
C12_WitnessOverride ==
  /\ Resolved /\ rtokens = <<">", "f", ">>", "x">>
  /\ shellio.out = "x" /\ shellio.err = NoHandle

\* &> sets both streams, and a later 2> overrides stderr only.
C12_WitnessBoth ==
  /\ Resolved /\ rtokens = <<"&>", "f", "2>", "x">>
  /\ shellio.out = "f" /\ shellio.err = "x"

\* A token of operator form that is the filename of the operator before it
\* sets nothing.
C12_WitnessFilename ==
  /\ Resolved /\ rtokens = <<">", "2>", "f">>
  /\ shellio.out = "2>" /\ shellio.err = NoHandle


\* The token at j is the filename an operator of the scan consumes.
IsFilename(tokens, j) ==
  j > 1 /\ tokens[j - 1] \in FileOps /\ IsOp(tokens, j - 1)

\* The tokens from position j on that are neither operator nor filename.
RECURSIVE Arguments(_, _)
Arguments(tokens, j) ==
  IF j > Len(tokens) THEN <<>>
  ELSE IF IsOp(tokens, j) \/ IsFilename(tokens, j)
  THEN Arguments(tokens, j + 1)
  ELSE <<tokens[j]>> \o Arguments(tokens, j + 1)

\* C14: after a successful resolution the token list is the original one
\* without its operators (the eight forms) and without the token that follows
\* each operator other than 2>&1; every other token is kept, in order.
C14_CleanTokens ==
  Resolved => shellio.tokens = Arguments(rtokens, 1)

\* An operator and its filename are taken out from between two arguments.
C14_WitnessMiddle ==
  /\ Resolved /\ rtokens = <<"x", ">", "f", "f">>
  /\ shellio.tokens = <<"x", "f">>

\* 2>&1 takes no filename: the token after it is kept.
C14_WitnessDup ==
  /\ Resolved /\ rtokens = <<"x", "2>&1", "f">>
  /\ shellio.tokens = <<"x", "f">>

\* A filename of operator form is consumed as a filename; the token after it
\* is an argument.
C14_WitnessFilename ==
  /\ Resolved /\ rtokens = <<"x", ">", ">", "f">>
  /\ shellio.tokens = <<"x", "f">>


\* --------------------------------------- lines run one after the other
MaxRuns == 3

SeqMenu ==
  { <<"echo", "a", ">", "f">>, <<"echo", "b", ">>", "f">>,
    <<"echo", "a", "1>", "f">>, <<"echo", "b", "1>>", "f">>,
    <<"gen", ">", "f">>, <<"gen", ">>", "f">>,
    <<"cd", "nodir", "2>", "f">>, <<"cd", "nodir", "2>>", "f">>,
    <<"err", "2>", "f">>, <<"err", "2>>", "f">>,
    <<"echo", "\">\"", "f">>, <<"echo", "a", "'>'", "f">>,
    <<"gen", "\\>", "f">>, <<"err", "2>", "f", "\"2>&1\"">> }

\* The read loop reads the next line, a single command; the Child of the
\* line before has been waited on and dropped.
ReadSeq ==
  /\ shell = "running" /\ pc = "read" /\ runs < MaxRuns
  /\ \E seg \in SeqMenu :
       /\ segments' = <<seg>>
       /\ pc' = run_pipeline_route(<<seg>>)
  /\ runs' = runs + 1
  /\ filesBefore' = files
  /\ lineNo' = 1
  /\ i' = 1 /\ k' = 1
  /\ children' = <<>> /\ prev_stdout' = 0 /\ prev_data' = <<>>
  /\ proc' = [c \in Procs |-> NoProc]
  /\ pin' = [c \in Procs |-> NoPipe]
  /\ pout' = [c \in Procs |-> NoPipe]
  /\ perr' = [c \in Procs |-> NoPipe]
  /\ thr' = [c \in Procs |-> NoThread]
  /\ termOut' = <<>> /\ termErr' = <<>> /\ log' = NoLog
  /\ UNCHANGED <<shell, files, cwd, n1Vars, funVars>>

NextSeq ==
  \/ ReadSeq
  \/ SingleBuiltin \/ SingleSpawn \/ SingleWait
  \/ \E c \in Procs : ChildGen(c) \/ ChildErr(c) \/ ChildExit(c)

SpecSeq == Init /\ [][NextSeq]_vars

\* The last operator of the stage that targets stdout (stderr).
LastStdoutOp(tokens) ==
  tokens[MaxOf(StdoutOpsBefore(tokens, Len(tokens) + 1))]

LastStderrOp(tokens) == tokens[MaxOf(StderrOpsIn(tokens))]

C13_WitnessTruncate ==
  /\ LineDone /\ runs = 3
  /\ segments = << <<"echo", "a", ">", "f">> >>
  /\ Len(filesBefore["f"].data) > 2
  /\ files["f"].data = <<"a", "\n">>

\* An external command appends its captured output, and 2>> its stderr.
C13_WitnessExternal ==
  /\ LineDone /\ runs = 3
  /\ segments = << <<"err", "2>>", "f">> >>
  /\ files["f"].data = GenData \o GenData \o <<"e">>


\* ------------------------------------------- stages before the last (C15)
\* The paths the resolver opens for the tokens of the last segment.
OpenedByLast ==
  LET opens == StageIO(Len(segments)).opens
  IN { opens[n][1] : n \in 1..Len(opens) }

\* The tokens of the stage hold a redirection operator.
HasOperator(idx) ==
  \E j \in 1..Len(StageSplit(idx).tokens) : StageSplit(idx).tokens[j] \in AllOps

\* C15: a stage that is not the last is given all its tokens, operators
\* included, as its arguments; its stdout is a pipe (an external stage) or
\* the buffer handed to the next stage (a builtin), never the terminal or a
\* file; its stderr is inherited; and no file is opened but by the
\* redirections of the last stage.
C15_TerminalOnly ==
  /\ \A idx \in Stages :
       (idx < Len(segments) /\ StageExecuted(idx)) =>
          /\ log.argv[idx] = StageSplit(idx).tokens
          /\ cid(idx) \in log.spawned =>
               proc[cid(idx)].sout = "pipe" /\ proc[cid(idx)].serr = "inherit"
  /\ (pc = "wi" /\ i > 1 /\ StageSplit(i - 1).ok
        /\ StageSplit(i - 1).tokens # <<>>
        /\ StageSplit(i - 1).tokens[1] \in BUILTINS) =>
       prev_data = log.bout[i - 1]
  /\ (lineNo > 0 /\ segments # <<>>) =>
       /\ termOut # <<>> => StageExecuted(Len(segments))
       /\ \A f \in FileNames : files[f] # filesBefore[f] => f \in OpenedByLast

\* echo a > f | ...: the builtin was given > and f as arguments, its output
\* a > f\n is the buffer of the next stage, and f does not exist.
C15_WitnessBuiltin ==
  /\ Len(segments) = 2 /\ segments[1] = <<"echo", "a", ">", "f">>
  /\ pc = "wi" /\ i = 2
  /\ log.argv[1] = <<"echo", "a", ">", "f">>
  /\ prev_data = <<"a", " ", ">", " ", "f", "\n">>
  /\ ~files["f"].exists

\* err 2> f | ...: the child was given 2> and f as arguments, its stderr is
\* inherited and f does not exist.
C15_WitnessExternal ==
  /\ Len(segments) >= 2 /\ HasOperator(1)
  /\ cid(1) \in log.spawned /\ proc[cid(1)].prog = "err"
  /\ proc[cid(1)].st = "exit" /\ termErr = <<"e">>
  /\ log.argv[1] = <<"err", "2>", "f">>
  /\ ~files["f"].exists


\* ---------------------------------------------- parse_pipeline (io.rs)
\* A line is a sequence of characters; a segment is one too.
MaxChars == 5

Chars == {"a", " ", "|", "'", "\"", "\\"}
InputLines == UNION { [1..m -> Chars] : m \in 0..MaxChars }

\* str::trim
RECURSIVE trim_start(_)
trim_start(s) == IF s # <<>> /\ Head(s) = " " THEN trim_start(Tail(s)) ELSE s

RECURSIVE trim_end(_)
trim_end(s) ==
  IF s # <<>> /\ s[Len(s)] = " " THEN trim_end(SubSeq(s, 1, Len(s) - 1)) ELSE s

trim(s) == trim_end(trim_start(s))

\* (mutant) the segment is pushed even when it is empty.
push_always(segs, current) == Append(segs, trim(current))

\* let trimmed = current.trim(); if !trimmed.is_empty() { segments.push(..) }
push_trimmed(segs, current) ==
  IF trim(current) # <<>> THEN Append(segs, trim(current)) ELSE segs

\* (mutant) every | separates.
is_separator_any(c, sq, dq) == c = "|"

\* '|' if !in_single_quote && !in_double_quote
is_separator(c, sq, dq) == c = "|" /\ ~sq /\ ~dq

\* The for loop over the characters; cuts records the positions at which the
\* '|' arm was taken.
RECURSIVE ScanLine(_, _, _)
ScanLine(line, p, st) ==
  IF p > Len(line)
  THEN [segments |-> push_trimmed(st.segments, st.current), cuts |-> st.cuts]
  ELSE LET c == line[p] IN
    IF c = "'" /\ ~st.dq
    THEN ScanLine(line, p + 1,
                  [st EXCEPT !.sq = ~@, !.current = Append(@, c)])
    ELSE IF c = "\"" /\ ~st.sq
    THEN ScanLine(line, p + 1,
                  [st EXCEPT !.dq = ~@, !.current = Append(@, c)])
    ELSE IF is_separator(c, st.sq, st.dq)
    THEN ScanLine(line, p + 1,
                  [st EXCEPT !.segments = push_trimmed(@, st.current),
                             !.current = <<>>, !.cuts = @ \cup {p}])
    ELSE ScanLine(line, p + 1, [st EXCEPT !.current = Append(@, c)])

parse_pipeline(line) ==
  ScanLine(line, 1, [segments |-> <<>>, current |-> <<>>, sq |-> FALSE,
                     dq |-> FALSE, cuts |-> {}])

InitSeg ==
  /\ InitProgram
  /\ fpc = "seg"
  /\ rtokens = <<>> /\ shellio = ShellIO_new(<<>>)
  /\ input \in InputLines /\ parsed = NoParse

\* run_pipeline: the line is segmented and the call is dispatched on the
\* number of segments.
Segment ==
  /\ fpc = "seg"
  /\ parsed' = parse_pipeline(input)
  /\ fpc' = run_pipeline_route(parse_pipeline(input).segments)
  /\ UNCHANGED <<shell, lineNo, mainVars, osVars, worldVars, log, n1Vars,
                 seqVars, rtokens, shellio, input>>

NextSeg == Segment

SpecSeg == InitSeg /\ [][NextSeg]_vars

Segmented == fpc \in {"read", "single", "piped"}

\* The quoting at position p of the line, before its character is read:
\* none, inside single quotes, or inside double quotes.
RECURSIVE QuoteAt(_, _)
QuoteAt(line, p) ==
  IF p = 1 THEN "none"
  ELSE LET q == QuoteAt(line, p - 1)
           c == line[p - 1]
       IN CASE q = "none" /\ c = "'" -> "single"
            [] q = "none" /\ c = "\"" -> "double"
            [] q = "single" /\ c = "'" -> "none"
            [] q = "double" /\ c = "\"" -> "none"
            [] OTHER -> q

Pipes(line) == { p \in 1..Len(line) : line[p] = "|" }
Separators(line) == { p \in Pipes(line) : QuoteAt(line, p) = "none" }

RECURSIVE CountPipes(_)
CountPipes(s) ==
  IF s = <<>> THEN 0
  ELSE (IF Head(s) = "|" THEN 1 ELSE 0) + CountPipes(Tail(s))

RECURSIVE PipesIn(_)
PipesIn(segs) ==
  IF segs = <<>> THEN 0 ELSE CountPipes(Head(segs)) + PipesIn(Tail(segs))

\* C16: the line is cut exactly at the | that are outside quotes, where a '
\* opens or closes single quotes only outside double quotes and a " opens or
\* closes double quotes only outside single quotes; every | inside quotes is
\* text of a segment.
C16_QuotedPipe ==
  Segmented =>
    /\ parsed.cuts = Separators(input)
    /\ PipesIn(parsed.segments)
         = Cardinality(Pipes(input) \ Separators(input))

\* A | in single quotes and a | in double quotes stay in the one segment.
C16_WitnessQuoted ==
  /\ Segmented /\ input = <<"'", "|", "'", "\"", "|">>
  /\ parsed.segments = << <<"'", "|", "'", "\"", "|">> >>

\* A ' inside double quotes does not open single quotes: the | after the
\* closing " separates.
C16_WitnessNested ==
  /\ Segmented /\ input = <<"\"", "'", "\"", "|", "a">>
  /\ parsed.segments = << <<"\"", "'", "\"">>, <<"a">> >>


\* The text between one separator and the next, from position p on.
RECURSIVE Pieces(_, _)
Pieces(line, p) ==
  LET S == { c \in Separators(line) : c >= p } IN
    IF S = {} THEN << SubSeq(line, p, Len(line)) >>
    ELSE LET c == CHOOSE m \in S : \A n \in S : m <= n
         IN << SubSeq(line, p, c - 1) >> \o Pieces(line, c + 1)

\* s without its leading and trailing spaces.
Stripped(s) ==
  LET N == { p \in 1..Len(s) : s[p] # " " } IN
    IF N = {} THEN <<>>
    ELSE SubSeq(s, CHOOSE m \in N : \A n \in N : m <= n, MaxOf(N))

RECURSIVE StrippedNonEmpty(_)
StrippedNonEmpty(pieces) ==
  IF pieces = <<>> THEN <<>>
  ELSE IF Stripped(Head(pieces)) = <<>> THEN StrippedNonEmpty(Tail(pieces))
  ELSE << Stripped(Head(pieces)) >> \o StrippedNonEmpty(Tail(pieces))

\* C17: the segments returned are the pieces of the line between separators,
\* in order, each without its leading and trailing spaces, those that are
\* then empty being dropped; no segment is empty or starts or ends with a
\* space; and for a line of spaces and separators only there is no segment
\* and run_pipeline returns without running anything.
C17_TrimmedNonEmpty ==
  Segmented =>
    /\ parsed.segments = StrippedNonEmpty(Pieces(input, 1))
    /\ \A n \in 1..Len(parsed.segments) :
         LET seg == parsed.segments[n] IN
           seg # <<>> /\ seg[1] # " " /\ seg[Len(seg)] # " "
    /\ (\A p \in 1..Len(input) : input[p] \in {" ", "|"}) =>
         parsed.segments = <<>> /\ fpc = "read"

\* a| |a: two segments, the empty one between the separators is dropped.
C17_WitnessDropped ==
  /\ Segmented /\ input = <<"a", "|", " ", "|", "a">>
  /\ parsed.segments = << <<"a">>, <<"a">> >> /\ fpc = "piped"

\* Spaces around a segment are trimmed, spaces inside it are kept.
C17_WitnessTrim ==
  /\ Segmented /\ input = <<" ", "a", " ", "a", " ">>
  /\ parsed.segments = << <<"a", " ", "a">> >> /\ fpc = "single"

\* Spaces and separators only: nothing to run.
C17_WitnessNothing ==
  /\ Segmented /\ input = <<" ", "|", " ", "|", " ">>
  /\ parsed.segments = <<>> /\ fpc = "read"


\* The | at p is escaped: it is outside quotes and the character before it is
\* a backslash that is not itself escaped.
EscapedPipe(line, p) ==
  /\ p > 1 /\ line[p] = "|" /\ line[p - 1] = "\\"
  /\ (p > 2 => line[p - 2] # "\\")
  /\ QuoteAt(line, p) = "none"

\* C18: the line is not cut at an escaped |, which stays in the text of its
\* segment.
C18_EscapedPipe ==
  Segmented =>
    \A p \in 1..Len(input) :
      EscapedPipe(input, p) =>
        /\ p \notin parsed.cuts
        /\ \E n \in 1..Len(parsed.segments) :
             Contains2(parsed.segments[n], "\\", "|")


\* C19: the message of a failed spawn names the command and is written to the
\* stage's error sink: to the file when the stage is the last and its stderr
\* is redirected to one, and then not to the terminal, otherwise to the
\* terminal; and the interpreter is back in its read loop.
C19_NotFoundSink ==
  \A idx \in log.notfound :
    LET io == StageIO(idx)
        name == StageCmd(idx)
    IN /\ shell # "panicked" /\ pc = "read"
       /\ io.err \in RegularFiles =>
            /\ Contains2(files[io.err].data, name, ": command not found\n")
            /\ ~Contains2(termErr, name, ": command not found\n")
       /\ io.err = NoHandle =>
            Contains2(termErr, name, ": command not found\n")


\* ------------------------------------------------ scheduling (C20)
\* The OS runs every child that can take a step, and every thread that can.
Fairness ==
  \A c \in Procs :
    /\ WF_vars(ChildGen(c) \/ ChildErr(c) \/ ChildCat(c) \/ ChildSigpipe(c)
                 \/ ChildExit(c))
    /\ WF_vars(ThreadCopy(c) \/ ThreadCopyEnd(c) \/ ThreadFeed(c)
                 \/ ThreadFeedEnd(c))

SpecFair == Init /\ [][Next]_vars /\ Fairness

\* The child of a stage of run_pipeline_with_input: stdin piped and fed from
\* the buffer, stdout and stderr drained by wait_with_output.
FedChild(c) == proc[c].st # "none" /\ proc[c].sin = "pipe" /\ proc[c].drain

\* C20: the buffer is written to the stdin of a child that exists, by a
\* thread of its own, while wait_with_output drains the child's output; what
\* the child has read, what the pipe holds and what the thread has still to
\* write are together the buffer (the main thread writes none of it); once
\* the thread has ended the write end of the child's stdin is closed; and
\* the thread does end and the child does exit.
C20_FeederTask ==
  /\ [](\A c \in Procs :
          /\ thr[c].kind = "feed" => FedChild(c)
          /\ (FedChild(c) /\ thr[c].kind = "done") => ~pin[c].wr
          /\ (thr[c].kind = "feed" /\ pc = "wi_wait" /\ c = cid(i)) =>
               proc[c].rd \o pin[c].buf \o thr[c].data = prev_data)
  /\ \A c \in Procs :
       (thr[c].kind = "feed") ~>
          (thr[c].kind = "done" /\ ~pin[c].wr /\ proc[c].st = "exit")

\* The thread delivered a buffer larger than the pipe to a child that read it
\* to EOF, the write end is closed and the child has exited.
C20_WitnessFed ==
  \E c \in Procs :
    /\ FedChild(c) /\ thr[c].kind = "done" /\ ~pin[c].wr
    /\ ReadToEOF(c) /\ Len(proc[c].rd) > PipeCap

\* The write fails (the child exited without reading its stdin) and the
\* thread ends with part of the buffer undelivered.
C20_WitnessWriteFails ==
  \E c \in Procs :
    /\ FedChild(c) /\ thr[c].kind = "feed" /\ thr[c].data # <<>>
    /\ proc[c].st = "exit" /\ ~pin[c].rd


\* ------------------------------------------------ copy tasks (C21, C22)
\* A thread started for the line is still running.
InFlight(c) == thr[c].kind \in {"copy", "feed"}

\* C21: when run_pipeline returns with every child it spawned waited on, no
\* thread it started is still running.
C21_CopyTasksDone ==
  (LineDone /\ \A c \in log.spawned : proc[c].waited) =>
    \A c \in Procs : ~InFlight(c)


\* A thread was started for the child c.
ThreadStarted(c) == thr[c].kind # "none"

\* C22: no thread is started for the link between two adjacent external
\* stages: the downstream child reads the upstream child's pipe itself.
C22_DirectPipe ==
  \A idx \in Stages :
    (idx > 1 /\ cid(idx - 1) \in log.spawned /\ cid(idx) \in log.spawned) =>
      ~ThreadStarted(cid(idx))


\* ------------------------------------------------ handles (C23)
\* The file the descriptor fd refers to (NoHandle for no descriptor).
FileOf(io, fd) == IF fd = 0 THEN NoHandle ELSE io.fds[fd]

\* The last operator that sets stdout and the last that sets stderr give both
\* streams the same file through one operator: &>, or 2>&1 after a stdout
\* redirection.
Duplicated(tokens) ==
  /\ StderrOpsIn(tokens) # {}
  /\ LET p == MaxOf(StderrOpsIn(tokens)) IN
       \/ tokens[p] = "2>&1" /\ StdoutOpsBefore(tokens, p) # {}
       \/ /\ tokens[p] \in BothOps
          /\ p = MaxOf(StdoutOpsBefore(tokens, Len(tokens) + 1))

\* C23: in a resolved ShellIO stdout and stderr never hold the same
\* descriptor; after &> F, or 2>&1 following a stdout redirection to F, they
\* hold two different descriptors of the file F; and the descriptor of each
\* stream is one of the file named by the last operator that targets it.
C23_HandleOwnership ==
  Resolved =>
    /\ (shellio.fdo # 0 /\ shellio.fde # 0) => shellio.fdo # shellio.fde
    /\ FileOf(shellio, shellio.fdo) = StdoutAt(rtokens, Len(rtokens) + 1)
    /\ FileOf(shellio, shellio.fde) = StderrFinal(rtokens)
    /\ Duplicated(rtokens) =>
         /\ shellio.fde # 0
         /\ FileOf(shellio, shellio.fde)
              = StdoutAt(rtokens, MaxOf(StderrOpsIn(rtokens)) + 1)

\* &> f: two descriptors of f.
C23_WitnessBoth ==
  /\ Resolved /\ rtokens = <<"x", "&>", "f">>
  /\ shellio.fdo = 1 /\ shellio.fde = 2
  /\ shellio.fds = <<"f", "f">>

\* > f 2>&1: stderr holds a clone of stdout's descriptor.
C23_WitnessDup ==
  /\ Resolved /\ rtokens = <<"x", ">", "f", "2>&1">>
  /\ shellio.fdo # shellio.fde
  /\ FileOf(shellio, shellio.fdo) = "f" /\ FileOf(shellio, shellio.fde) = "f"


\* ------------------------------------------- sequential remainder (C24)
\* The children of run_pipeline_with_input that have not exited.
AliveFed == {c \in Procs : FedChild(c) /\ proc[c].st = "run"}

\* C24: after a builtin in a non-terminal position the rest of the pipeline
\* runs one stage at a time: the only child of run_pipeline_with_input that
\* can be alive is the one being waited on, every earlier one has exited, been
\* waited on and had its stdout drained, and no stage is tokenized or spawned
\* while one is alive.
C24_Sequential ==
  /\ AliveFed \subseteq (IF pc = "wi_wait" THEN {cid(i)} ELSE {})
  /\ \A c \in Procs :
       (FedChild(c) /\ ~(pc = "wi_wait" /\ c = cid(i))) =>
         /\ proc[c].st = "exit" /\ proc[c].waited
         /\ pout[c] = NoPipe

\* echo a | gen | cat: gen has exited and been waited on, cat is running.
C24_WitnessSecondStage ==
  /\ pc = "wi_wait" /\ i = 3
  /\ FedChild(cid(2)) /\ proc[cid(2)].st = "exit" /\ proc[cid(2)].waited
  /\ FedChild(cid(3)) /\ proc[cid(3)].st = "run"
  /\ prev_data = GenData


\* ------------------------------------ upstream of a builtin stage (C25)
\* A line is run, then run again with external stages before a builtin stage
\* replaced by externals that produce other bytes.
UpMenu == { <<"gen">>, <<"cat">>, <<"err">> }

IsBuiltinSeg(seg) ==
  /\ Split(seg).ok /\ Split(seg).tokens # <<>>
  /\ Split(seg).tokens[1] \in BUILTINS

BuiltinStages(segs) == {b \in 2..Len(segs) : IsBuiltinSeg(segs[b])}

\* What the builtin stage b and the stages after it produced and received, and
\* what reached the sinks of the line.
DownSummary(b) ==
  [bout |-> [idx \in 1..MaxStages |-> IF idx >= b THEN log.bout[idx] ELSE <<>>],
   rd |-> [idx \in 1..MaxStages |->
             IF idx > b /\ idx <= Len(segments) THEN proc[cid(idx)].rd
             ELSE <<>>],
   wr |-> [idx \in 1..MaxStages |->
             IF idx > b /\ idx <= Len(segments) THEN proc[cid(idx)].wr
             ELSE <<>>],
   termOut |-> termOut,
   files |-> files]

\* The lines that differ from segs only in external stages before stage b.
Variants(segs, b) ==
  {alt \in [1..Len(segs) -> SegMenu \cup UpMenu] :
     /\ alt # segs
     /\ \A idx \in 1..Len(segs) :
          alt[idx] # segs[idx] =>
            idx < b /\ segs[idx] \in UpMenu /\ alt[idx] \in UpMenu}

NIStart ==
  /\ phase = 0 /\ shell = "running" /\ pc = "read" /\ lineNo = 0
  /\ \E line \in Lines :
       /\ BuiltinStages(line) # {}
       /\ segments' = line
       /\ pc' = run_pipeline_route(line)
  /\ phase' = 1
  /\ lineNo' = 1
  /\ i' = 1 /\ k' = 1
  /\ UNCHANGED <<shell, children, prev_stdout, prev_data, osVars, worldVars,
                 log, sumA, seqVars, funVars>>

NIReplay ==
  /\ phase = 1 /\ RunOver
  /\ \E b \in BuiltinStages(segments) : \E alt \in Variants(segments, b) :
       segments' = alt
  /\ sumA' = [segs |-> segments,
              down |-> [b \in 1..MaxStages |-> DownSummary(b)]]
  /\ phase' = 2
  /\ shell' = "running"
  /\ pc' = "piped"
  /\ i' = 1 /\ k' = 1
  /\ children' = <<>> /\ prev_stdout' = 0 /\ prev_data' = <<>>
  /\ proc' = [c \in Procs |-> NoProc]
  /\ pin' = [c \in Procs |-> NoPipe]
  /\ pout' = [c \in Procs |-> NoPipe]
  /\ perr' = [c \in Procs |-> NoPipe]
  /\ thr' = [c \in Procs |-> NoThread]
  /\ files' = [f \in FileNames |-> NoFile]
  /\ cwd' = "/"
  /\ termOut' = <<>> /\ termErr' = <<>>
  /\ log' = NoLog
  /\ UNCHANGED <<lineNo, seqVars, funVars>>

NextNI ==
  \/ NIStart \/ NIReplay
  \/ PipedParseError \/ PipedRedirError \/ PipedSkip \/ PipedBuiltin
  \/ PipedSpawnFail \/ PipedSpawn \/ PipedWait \/ PipedReturn
  \/ WIParseError \/ WIRedirError \/ WISkip \/ WIBuiltin
  \/ WISpawnFail \/ WISpawn \/ WIWait
  \/ ChildStep \/ ThreadStep

SpecNI == Init /\ [][NextNI]_vars

\* C25: two runs of a line that differ only in external stages before a
\* builtin stage b (so only in the bytes produced upstream of it) agree on the
\* output of every builtin stage from b on, on the bytes every stage after b
\* read and wrote, on the terminal's stdout and on the files.
C25_UpstreamIgnored ==
  (phase = 2 /\ RunOver) =>
    \A b \in BuiltinStages(segments) :
      segments \in Variants(sumA.segs, b) => DownSummary(b) = sumA.down[b]

\* gen | echo a | cat replayed as cat | echo a | cat: cat receives echo's
\* line both times.
C25_WitnessHandoff ==
  /\ phase = 2 /\ RunOver
  /\ sumA.segs = << <<"gen">>, <<"echo", "a">>, <<"cat">> >>
  /\ segments = << <<"cat">>, <<"echo", "a">>, <<"cat">> >>
  /\ proc[cid(3)].rd = <<"a", "\n">>
  /\ termOut = <<"a", "\n">>
  /\ sumA.down[2].termOut = <<"a", "\n">>

\* gen | cat | pwd replayed as err | gen | pwd: a builtin in last position
\* after two externals joined by a copy thread.
C25_WitnessLast ==
  /\ phase = 2 /\ RunOver
  /\ sumA.segs = << <<"gen">>, <<"cat">>, <<"pwd">> >>
  /\ segments = << <<"err">>, <<"gen">>, <<"pwd">> >>
  /\ log.bout[3] = <<"/", "\n">> /\ termOut = <<"/", "\n">>


\* ------------------------------------------ opens during the scan (C26)
\* The operator at j makes the scan fail: a file operator with no token after
\* it, or one whose file cannot be opened.
FailsAt(tokens, j) ==
  /\ IsOp(tokens, j) /\ tokens[j] \in FileOps
  /\ (j = Len(tokens) \/ ~CanOpen(tokens[j + 1]))

ScanFails(tokens) == \E j \in 1..Len(tokens) : FailsAt(tokens, j)

FirstFail(tokens) ==
  IF ScanFails(tokens)
  THEN CHOOSE j \in 1..Len(tokens) :
         FailsAt(tokens, j) /\ \A q \in 1..(j - 1) : ~FailsAt(tokens, q)
  ELSE Len(tokens) + 1

\* The file operators scanned before the end of the list or the first failure.
ScannedFileOps(tokens) ==
  { j \in OpsAt(tokens) : tokens[j] \in FileOps /\ j < FirstFail(tokens) }

OpsOn(tokens, path) == { j \in ScannedFileOps(tokens) : tokens[j + 1] = path }

\* C26: when setup_redirections returns, every file named after a file
\* operator scanned before the end of the list or the first failure exists,
\* empty if one of those operators truncates and with its former content if
\* all of them append, whether or not a later operator overrides the stream
\* or fails; no other file is touched; and on failure the caller's tokens are
\* unmodified and no ShellIO is returned.
C26_OpensDuringScan ==
  fpc = "done" =>
    /\ \A path \in FileNames :
         IF OpsOn(rtokens, path) = {} THEN files[path] = filesBefore[path]
         ELSE /\ files[path].exists
              /\ files[path].data =
                   IF \E j \in OpsOn(rtokens, path) : rtokens[j] \notin AppendOps
                   THEN <<>> ELSE filesBefore[path].data
    /\ shellio.ok = ~ScanFails(rtokens)
    /\ ScanFails(rtokens) =>
         /\ shellio.tokens = rtokens
         /\ shellio.out = NoHandle /\ shellio.err = NoHandle
         /\ shellio.fdo = 0 /\ shellio.fde = 0

\* > f > nodir/f: f was truncated before the second open failed.
C26_WitnessFailure ==
  /\ fpc = "done" /\ rtokens = <<">", "f", ">", "nodir/f">>
  /\ filesBefore["f"].data = <<"old">>
  /\ files["f"] = [exists |-> TRUE, data |-> <<>>]
  /\ ~shellio.ok /\ shellio.tokens = rtokens

\* >> f > x: f is created or kept although x overrides stdout.
C26_WitnessOverride ==
  /\ fpc = "done" /\ rtokens = <<">>", "f", ">", "x">>
  /\ filesBefore["f"].data = <<"old">> /\ files["f"].data = <<"old">>
  /\ filesBefore["x"].data = <<"old">> /\ files["x"].data = <<>>
  /\ shellio.ok /\ shellio.out = "x"


\* ------------------------------------------------------------ exit (C27)
\* The interpreter was ended by std::process::exit(0), not by end of input.
ExitedByBuiltin == shell = "exited" /\ pc # "read"

\* Stage idx of a multi-stage line was dispatched as the builtin exit.
ExitStage(idx) ==
  /\ Len(segments) > 1 /\ idx \in Stages
  /\ log.argv[idx] # <<>> /\ log.argv[idx][1] = "exit"

\* C27: the interpreter is ended by exit only in run_single_command, on a
\* one-segment line whose command is exit and whose redirections were
\* resolved (their files opened) first; an exit stage of a multi-stage line is
\* handled as a builtin: no handler runs, nothing is spawned for it, its
\* output is empty, and the interpreter is not ended by it.
C27_ExitOnlySingle ==
  /\ ExitedByBuiltin =>
       /\ Len(segments) = 1 /\ pc = "single"
       /\ StageRuns(1) /\ StageCmd(1) = "exit"
       /\ files = ApplyOpens(filesBefore, StageIO(1).opens)
  /\ \A idx \in 1..MaxStages :
       ExitStage(idx) =>
         /\ idx \notin log.ran
         /\ cid(idx) \notin log.spawned
         /\ log.bout[idx] = <<>> /\ log.berr[idx] = <<>>
         /\ ~ExitedByBuiltin

\* exit > f: f is created, then the interpreter ends.
C27_WitnessSingle ==
  /\ ExitedByBuiltin
  /\ segments = << <<"exit", ">", "f">> >>
  /\ files["f"].exists /\ ~filesBefore["f"].exists

\* exit | echo a: the line runs to its end and the read loop continues.
C27_WitnessPiped ==
  /\ LineDone /\ segments = << <<"exit">>, <<"echo", "a">> >>
  /\ ExitStage(1) /\ termOut = <<"a", "\n">>

\* gen | exit: exit as the last stage.
C27_WitnessPipedLast ==
  /\ LineDone /\ segments = << <<"gen">>, <<"exit">> >>
  /\ ExitStage(2) /\ termOut = <<>>


\* ------------------------------------------- quoted operators (C28)
\* The words of the line as written, and the positions where a word written
\* quoted or escaped has the text of a redirection operator.
Written == segments[1]

\* The operator a written word spells under its quoting, if any.
OperatorText(word) ==
  IF word \in {"\">\"", "'>'", "\\>"} THEN ">"
  ELSE IF word = "\"2>&1\"" THEN "2>&1"
  ELSE word

Unquoted == [j \in 1..Len(Written) |-> OperatorText(Written[j])]

QuotedOps ==
  { j \in 1..Len(Written) :
      Written[j] # Unquoted[j] /\ IsOp(Unquoted, j) }

\* C28: the resolver works on the tokens the tokenizer returns, quoting
\* removed: a word written quoted or escaped whose text is an operator form
\* is resolved as that operator.  The command receives neither it nor its
\* filename as an argument, the file after a file operator is opened, and the
\* streams go where the unquoted line would send them.
C28_QuotedOperator ==
  (LineDone /\ Len(segments) = 1 /\ QuotedOps # {}) =>
    /\ StageSplit(1).tokens = Unquoted
    /\ log.argv[1] = Arguments(Unquoted, 1)
    /\ \A j \in QuotedOps :
         Unquoted[j] \in FileOps => files[Unquoted[j + 1]].exists
    /\ StdoutOpsBefore(Unquoted, Len(Unquoted) + 1) # {} => termOut = <<>>
    /\ StageIO(1) = setup_redirections(Unquoted)

\* echo ">" f: f receives echo's empty line, nothing reaches the terminal.
C28_WitnessEcho ==
  /\ LineDone /\ segments = << <<"echo", "\">\"", "f">> >>
  /\ runs = 1
  /\ files["f"] = [exists |-> TRUE, data |-> <<"\n">>]
  /\ termOut = <<>> /\ log.argv[1] = <<"echo">>

\* gen \> f: the escaped form, on an external command.
C28_WitnessExternal ==
  /\ LineDone /\ segments = << <<"gen", "\\>", "f">> >>
  /\ runs = 1
  /\ files["f"].data = GenData /\ termOut = <<>>
  /\ log.argv[1] = <<"gen">>

=============================================================================
